---- MODULE Spec2Model ----
(***************************************************************************)
(* Model of 02AfterSPA/Scripts/app.ts: the TodoService (three HTTP         *)
(* wrappers), the TodoController (filter, items, loading, refresh, update, *)
(* changeColumn, removeCompleted) and the promises in flight between them. *)
(*                                                                         *)
(* JavaScript is single threaded: every controller method and every        *)
(* promise callback runs to completion, so each is one atomic action.  A   *)
(* service call is a record in `pending` from the moment it is issued      *)
(* until its promise settles; the server (external) picks the outcome and, *)
(* for a list request, the list.                                           *)
(***************************************************************************)
EXTENDS Integers, Sequences, FiniteSets, TLC

\* ---- bound of the model -------------------------------------------------
MaxOps == 2        \* user operations that issue service calls, per behaviour

\* ---- data ---------------------------------------------------------------
\* enum Columns, as the strings Columns[...] yields
Columns == {"Id", "Completed", "Description", "DueDate"}

\* the column names the view passes to changeColumn here: the initial sort
\* column and one other
ColumnNames == {"DueDate", "Description"}

\* the texts the view assigns to filterText here
Texts == {"", "a"}

\* interface ITodoFilter
ITodoFilter == [filterText : Texts, columnName : ColumnNames, sortAscending : BOOLEAN]

\* the Ids of the rows the server holds here
Ids == {1, 2}

\* interface ITodoItem; Description and DueDate take no part in what the
\* controller requests and are left to the operators that read them
ITodoItem == [Id : Ids, IsDone : BOOLEAN]

\* the lists the server may answer GET /api/todo with: rows in any order,
\* no row twice
RECURSIVE ListsOfLen(_)
ListsOfLen(n) ==
    IF n = 0 THEN {<<>>}
    ELSE {Append(l, it) : l \in ListsOfLen(n - 1), it \in ITodoItem}

Distinct(l) == \A i, j \in 1..Len(l) : i # j => l[i].Id # l[j].Id

Lists == UNION {{l \in ListsOfLen(n) : Distinct(l)} : n \in 0..Cardinality(Ids)}

\* fields a request of another kind leaves empty
NoFilter == [filterText |-> "-", columnName |-> "-", sortAscending |-> FALSE]
NoItem == [Id |-> 0, IsDone |-> FALSE]

VARIABLES
    filter,     \* TodoController.filter
    items,      \* TodoController.items
    loading,    \* TodoController.loading
    pending,    \* service calls issued whose promise has not settled
    nextId,     \* sequence number of the next service call (issue order)
    batches,    \* per confirmed removeCompleted(): its closure variable count
    lastGet,    \* the getItems call that resolved last, the list it delivered, and
                \* the getItems call that had resolved before it (prev)
    nops,       \* user operations that issued service calls so far
    ev,         \* the last event: operation, argument or outcome, alert() calls made
    probe       \* the call of a function that only returns a value, when it was
                \* the last thing to happen: its inputs and what it returned

ctrl == <<filter, items, loading, pending, nextId, batches, lastGet, nops, ev>>

vars == <<filter, items, loading, pending, nextId, batches, lastGet, nops, ev, probe>>

\* ---- TodoService ----------------------------------------------------------
\* GET /api/todo with params: filter; b names the removeCompleted batch whose
\* drain asked for it (0: none)
getItems(id, f, b) ==
    [id |-> id, kind |-> "get", filter |-> f, item |-> NoItem, batch |-> b]

\* POST /api/todo with JSON.stringify(item)
updateItem(id, item) ==
    [id |-> id, kind |-> "update", filter |-> NoFilter, item |-> item, batch |-> 0]

\* DELETE /api/todo/<item.Id>, for the removeCompleted batch b
deleteItem(id, item, b) ==
    [id |-> id, kind |-> "delete", filter |-> NoFilter,
     item |-> [Id |-> item.Id, IsDone |-> FALSE], batch |-> b]

\* ---- helpers --------------------------------------------------------------
Event(op, arg, alerts) == [op |-> op, arg |-> arg, alerts |-> alerts]

\* a call recorded in probe: the function, its inputs, the values it produced
NoInput ==
    [columnName |-> "", columnDescription |-> "", currentColumn |-> "",
     sortAscending |-> FALSE, now |-> 0, DueDate |-> "", kind |-> "", ok |-> FALSE,
     data |-> ""]

Probe(op, in, out) == [op |-> op, in |-> in, out |-> out]

NoProbe == Probe("", NoInput, <<>>)

\* the user starts one more operation that issues service calls
UserOp == nops < MaxOps /\ nops' = nops + 1

\* TodoController.refresh with this.filter = f, on top of the pending set p
refresh(f, p, b) ==
    /\ loading' = TRUE
    /\ pending' = p \cup {getItems(nextId, f, b)}
    /\ nextId' = nextId + 1

\* ---- TodoController -------------------------------------------------------
\* the state the constructor leaves: field initialisers, filter, refresh()
Init ==
    /\ filter = [filterText |-> "", columnName |-> "DueDate", sortAscending |-> FALSE]
    /\ items = <<>>
    /\ loading = TRUE
    /\ pending = {getItems(1, filter, 0)}
    /\ nextId = 2
    /\ batches = <<>>
    /\ lastGet = [id |-> 0, filter |-> NoFilter, list |-> <<>>, prev |-> 0]
    /\ nops = 0
    /\ ev = Event("constructor", "", 0)
    /\ probe = NoProbe

\* setFilterText with a slip: the setter stores the value and forgets refresh()
setFilterTextSilent(value) ==
    /\ UserOp
    /\ filter' = [filter EXCEPT !.filterText = value]
    /\ ev' = Event("setFilterText", value, 0)
    /\ probe' = NoProbe
    /\ UNCHANGED <<items, loading, pending, nextId, batches, lastGet>>

\* set filterText(value)
setFilterText(value) ==
    /\ UserOp
    /\ filter' = [filter EXCEPT !.filterText = value]
    /\ refresh(filter', pending, 0)
    /\ ev' = Event("setFilterText", value, 0)
    /\ probe' = NoProbe
    /\ UNCHANGED <<items, batches, lastGet>>

\* columnFilter with a slip: a new column also resets the direction to ascending
columnFilterReset(f, columnName) ==
    IF f.columnName = columnName
    THEN [f EXCEPT !.sortAscending = ~f.sortAscending]
    ELSE [f EXCEPT !.columnName = columnName, !.sortAscending = TRUE]

\* the filter changeColumn leaves behind
columnFilter(f, columnName) ==
    IF f.columnName = columnName
    THEN [f EXCEPT !.sortAscending = ~f.sortAscending]
    ELSE [f EXCEPT !.columnName = columnName]

changeColumn(columnName) ==
    /\ UserOp
    /\ filter' = columnFilter(filter, columnName)
    /\ refresh(filter', pending, 0)
    /\ ev' = Event("changeColumn", columnName, 0)
    /\ probe' = NoProbe
    /\ UNCHANGED <<items, batches, lastGet>>

\* update with a slip: the save is followed by a refresh
updateRefreshing(todoItem) ==
    /\ UserOp
    /\ pending' = pending \cup {updateItem(nextId, todoItem), getItems(nextId + 1, filter, 0)}
    /\ loading' = TRUE
    /\ nextId' = nextId + 2
    /\ ev' = Event("update", "", 0)
    /\ probe' = NoProbe
    /\ UNCHANGED <<filter, items, batches, lastGet>>

update(todoItem) ==
    /\ UserOp
    /\ loading' = TRUE
    /\ pending' = pending \cup {updateItem(nextId, todoItem)}
    /\ nextId' = nextId + 1
    /\ ev' = Event("update", "", 0)
    /\ probe' = NoProbe
    /\ UNCHANGED <<filter, items, batches, lastGet>>

\* DoneIndexes with a slip: the IsDone test is lost
DoneIndexesAll(its) == 1..Len(its)

\* positions of this.items that removeCompleted deletes
DoneIndexes(its) == {i \in 1..Len(its) : its[i].IsDone}

\* the deleteItem calls the forEach of removeCompleted issues for batch b, in
\* list order: the k-th done item gets sequence number nextId + k - 1
batchDeletes(its, b) ==
    {deleteItem(nextId + Cardinality({j \in DoneIndexes(its) : j < i}), its[i], b) :
        i \in DoneIndexes(its)}

\* removeDeclined with a slip: loading is set before confirm() is asked
removeDeclinedLoading ==
    /\ loading' = TRUE
    /\ ev' = Event("removeCompleted", "declined", 0)
    /\ probe' = NoProbe
    /\ UNCHANGED <<filter, items, pending, nextId, batches, lastGet, nops>>

\* removeCompleted() when confirm() returns false
removeDeclined ==
    /\ ev' = Event("removeCompleted", "declined", 0)
    /\ probe' = NoProbe
    /\ UNCHANGED <<filter, items, loading, pending, nextId, batches, lastGet, nops>>

\* removeCompleted() when confirm() returns true
removeConfirmed ==
    LET dels == batchDeletes(items, Len(batches) + 1)
    IN  /\ UserOp
        /\ loading' = TRUE
        /\ pending' = pending \cup dels
        /\ nextId' = nextId + Cardinality(dels)
        /\ batches' = Append(batches, Cardinality(dels))
        /\ ev' = Event("removeCompleted", "confirmed", 0)
        /\ probe' = NoProbe
        /\ UNCHANGED <<filter, items, lastGet>>

removeCompleted(confirmed) ==
    IF confirmed THEN removeConfirmed ELSE removeDeclined

\* ---- promise callbacks ----------------------------------------------------
\* getResolved with a slip: the list is appended to the collection on display
getResolvedMerged(c, list) ==
    /\ c \in pending /\ c.kind = "get"
    /\ items' = items \o list
    /\ loading' = FALSE
    /\ pending' = pending \ {c}
    /\ lastGet' = [id |-> c.id, filter |-> c.filter, list |-> list, prev |-> lastGet.id]
    /\ ev' = Event("getItems", "resolved", 0)
    /\ probe' = NoProbe
    /\ UNCHANGED <<filter, nextId, batches, nops>>

\* getResolved with requests sequenced: the response of a request issued
\* before the one on display is dropped
getResolvedSequenced(c, list) ==
    /\ c \in pending /\ c.kind = "get"
    /\ items' = IF c.id < lastGet.id THEN items ELSE list
    /\ loading' = FALSE
    /\ pending' = pending \ {c}
    /\ lastGet' = [id |-> c.id, filter |-> c.filter, list |-> list, prev |-> lastGet.id]
    /\ ev' = Event("getItems", "resolved", 0)
    /\ probe' = NoProbe
    /\ UNCHANGED <<filter, nextId, batches, nops>>

\* refresh: getItems(...).then(list => ...)
getResolved(c, list) ==
    /\ c \in pending /\ c.kind = "get"
    /\ items' = list
    /\ loading' = FALSE
    /\ pending' = pending \ {c}
    /\ lastGet' = [id |-> c.id, filter |-> c.filter, list |-> list, prev |-> lastGet.id]
    /\ ev' = Event("getItems", "resolved", 0)
    /\ probe' = NoProbe
    /\ UNCHANGED <<filter, nextId, batches, nops>>

\* getRejected with a rollback: the error callback also restores the initial filter
getRejectedReset(c) ==
    /\ c \in pending /\ c.kind = "get"
    /\ filter' = [filterText |-> "", columnName |-> "DueDate", sortAscending |-> FALSE]
    /\ loading' = FALSE
    /\ pending' = pending \ {c}
    /\ ev' = Event("getItems", "rejected", 1)
    /\ probe' = NoProbe
    /\ UNCHANGED <<items, nextId, batches, lastGet, nops>>

\* getRejected with a retry: the error callback alerts and calls refresh() again
getRejectedRetry(c) ==
    /\ c \in pending /\ c.kind = "get"
    /\ refresh(filter, pending \ {c}, c.batch)
    /\ ev' = Event("getItems", "rejected", 1)
    /\ probe' = NoProbe
    /\ UNCHANGED <<filter, items, batches, lastGet, nops>>

\* refresh: getItems(...).then(..., err => ...)
getRejected(c) ==
    /\ c \in pending /\ c.kind = "get"
    /\ loading' = FALSE
    /\ pending' = pending \ {c}
    /\ ev' = Event("getItems", "rejected", 1)
    /\ probe' = NoProbe
    /\ UNCHANGED <<filter, items, nextId, batches, lastGet, nops>>

\* updateResolved with a local patch: the saved item replaces its row
updateResolvedPatched(c) ==
    /\ c \in pending /\ c.kind = "update"
    /\ items' = [i \in 1..Len(items) |->
                    IF items[i].Id = c.item.Id THEN c.item ELSE items[i]]
    /\ loading' = FALSE
    /\ pending' = pending \ {c}
    /\ ev' = Event("updateItem", "resolved", 0)
    /\ probe' = NoProbe
    /\ UNCHANGED <<filter, nextId, batches, lastGet, nops>>

\* update: updateItem(...).then(() => ...)
updateResolved(c) ==
    /\ c \in pending /\ c.kind = "update"
    /\ loading' = FALSE
    /\ pending' = pending \ {c}
    /\ ev' = Event("updateItem", "resolved", 0)
    /\ probe' = NoProbe
    /\ UNCHANGED <<filter, items, nextId, batches, lastGet, nops>>

\* update: updateItem(...).then(..., err => ...)
updateRejected(c) ==
    /\ c \in pending /\ c.kind = "update"
    /\ loading' = FALSE
    /\ pending' = pending \ {c}
    /\ ev' = Event("updateItem", "rejected", 1)
    /\ probe' = NoProbe
    /\ UNCHANGED <<filter, items, nextId, batches, lastGet, nops>>

\* checkCount with a slip: the count == 0 test is lost, every settlement refreshes
checkCountEager(c, outcome) ==
    /\ c \in pending /\ c.kind = "delete"
    /\ batches' = [batches EXCEPT ![c.batch] = batches[c.batch] - 1]
    /\ refresh(filter, pending \ {c}, c.batch)
    /\ ev' = Event("deleteItem", outcome, 0)
    /\ probe' = NoProbe
    /\ UNCHANGED <<filter, items, lastGet, nops>>

\* checkCount with a slip: a settlement that is not the last clears loading
checkCountClearing(c, outcome) ==
    /\ c \in pending /\ c.kind = "delete"
    /\ batches' = [batches EXCEPT ![c.batch] = batches[c.batch] - 1]
    /\ IF batches'[c.batch] = 0
       THEN refresh(filter, pending \ {c}, c.batch)
       ELSE pending' = pending \ {c} /\ loading' = FALSE /\ UNCHANGED nextId
    /\ ev' = Event("deleteItem", outcome, 0)
    /\ probe' = NoProbe
    /\ UNCHANGED <<filter, items, lastGet, nops>>

\* checkCount with count shared: one counter, that of the first invocation,
\* serves every invocation of removeCompleted
checkCountShared(c, outcome) ==
    /\ c \in pending /\ c.kind = "delete"
    /\ batches' = [batches EXCEPT ![1] = batches[1] - 1]
    /\ IF batches'[1] = 0
       THEN refresh(filter, pending \ {c}, c.batch)
       ELSE pending' = pending \ {c} /\ UNCHANGED <<loading, nextId>>
    /\ ev' = Event("deleteItem", outcome, 0)
    /\ probe' = NoProbe
    /\ UNCHANGED <<filter, items, lastGet, nops>>

\* removeCompleted: checkCount, registered for both outcomes of deleteItem
checkCount(c, outcome) ==
    /\ c \in pending /\ c.kind = "delete"
    /\ batches' = [batches EXCEPT ![c.batch] = batches[c.batch] - 1]
    /\ IF batches'[c.batch] = 0
       THEN refresh(filter, pending \ {c}, c.batch)
       ELSE pending' = pending \ {c} /\ UNCHANGED <<loading, nextId>>
    /\ ev' = Event("deleteItem", outcome, 0)
    /\ probe' = NoProbe
    /\ UNCHANGED <<filter, items, lastGet, nops>>

Next ==
    \/ \E value \in Texts : setFilterText(value)
    \/ \E columnName \in ColumnNames : changeColumn(columnName)
    \/ \E todoItem \in ITodoItem : update(todoItem)
    \/ \E confirmed \in BOOLEAN : removeCompleted(confirmed)
    \/ \E c \in pending, list \in Lists : getResolved(c, list)
    \/ \E c \in pending : getRejected(c)
    \/ \E c \in pending : updateResolved(c)
    \/ \E c \in pending : updateRejected(c)
    \/ \E c \in pending, outcome \in {"resolved", "rejected"} : checkCount(c, outcome)

Spec == Init /\ [][Next]_vars

\* ---- functions that only return a value ------------------------------------
Str(b) == IF b THEN "true" ELSE "false"

\* hasDoneAfter with a slip: hasDone = item.IsDone, so the last item decides
hasDoneAfterLast(its, n) == IF n = 0 THEN FALSE ELSE its[n].IsDone

\* noCompleted: the value of hasDone once forEach has visited the first n items
RECURSIVE hasDoneAfter(_, _)
hasDoneAfter(its, n) ==
    IF n = 0 THEN FALSE
    ELSE IF its[n].IsDone THEN TRUE ELSE hasDoneAfter(its, n - 1)

noCompleted(its) == ~hasDoneAfter(its, Len(its))

\* the DueDate strings of the rows here: two dates and a text that is no date
DueDates == {"2020-01-01", "2019-12-31", "soon"}

\* the clock readings here, in ms from 2020-01-01T00:00:00Z
Nows == {-1, 0, 1}

\* new Date(string): the time value in ms from 2020-01-01T00:00:00Z, or an
\* invalid date (time value NaN)
DateParse(str) ==
    CASE str = "2020-01-01" -> [valid |-> TRUE, t |-> 0]
      [] str = "2019-12-31" -> [valid |-> TRUE, t |-> -86400000]
      [] OTHER -> [valid |-> FALSE, t |-> 0]

\* overdue with a slip: >= for >
overdueInclusive(now, todoItem) ==
    LET due == DateParse(todoItem.DueDate)
    IN  due.valid /\ now >= due.t

\* overdue: now > due on the time values; any comparison with NaN is false
overdue(now, todoItem) ==
    LET due == DateParse(todoItem.DueDate)
    IN  due.valid /\ now > due.t

\* the scopes of a <column-toggle> here; "" stands for no column-description
Scopes ==
    [columnName : ColumnNames, columnDescription : {"", "Due"},
     currentColumn : ColumnNames, sortAscending : BOOLEAN]

\* columnToggle, scope.toggle: the calls of the change-column callback it makes,
\* each by the colName passed
toggle(scope) == <<scope.columnName>>

\* template with a slip: the two indicators are swapped
templateSwapped(scope) ==
    <<IF scope.columnDescription # "" THEN scope.columnDescription ELSE scope.columnName>>
    \o (IF scope.currentColumn = scope.columnName
        THEN IF scope.sortAscending THEN <<" v">> ELSE <<" ^">>
        ELSE <<>>)

\* columnToggle, template: the pieces of text shown, in order
template(scope) ==
    <<IF scope.columnDescription # "" THEN scope.columnDescription ELSE scope.columnName>>
    \o (IF scope.currentColumn = scope.columnName
        THEN IF scope.sortAscending THEN <<" ^">> ELSE <<" v">>
        ELSE <<>>)

ScopeInput(scope) ==
    [NoInput EXCEPT !.columnName = scope.columnName,
                    !.columnDescription = scope.columnDescription,
                    !.currentColumn = scope.currentColumn,
                    !.sortAscending = scope.sortAscending]

\* the bodies of the HTTP responses here
Bodies == {"a", "b"}

\* the outcomes of an HTTP request: success or failure, with the body received
Https == [ok : BOOLEAN, data : Bodies]

\* how the promise of a TodoService call settles on the outcome of its HTTP
\* request: <<state, what was passed to resolve or reject, the body in it>>;
\* "response" is the object $http delivered, "data" its data property
settle(kind, http) ==
    IF ~http.ok THEN <<"rejected", "response", http.data>>
    ELSE CASE kind = "get" -> <<"resolved", "data", http.data>>
           [] kind = "update" -> <<"resolved", "response", http.data>>
           [] kind = "delete" -> <<"resolved", "undefined", "">>

\* the user clicks a <column-toggle>
toggleCall(scope) ==
    /\ probe' = Probe("toggle", ScopeInput(scope), toggle(scope))
    /\ UNCHANGED ctrl

\* the view renders a <column-toggle>
templateCall(scope) ==
    /\ probe' = Probe("template", ScopeInput(scope), template(scope))
    /\ UNCHANGED ctrl

\* the HTTP request of a service call comes back and its promise settles
settleCall(kind, http) ==
    /\ probe' = Probe("settle", [NoInput EXCEPT !.kind = kind, !.ok = http.ok,
                                                !.data = http.data],
                      settle(kind, http))
    /\ UNCHANGED ctrl

\* the view evaluates ctrl.noCompleted()
noCompletedCall ==
    /\ probe' = Probe("noCompleted", NoInput, <<Str(noCompleted(items))>>)
    /\ UNCHANGED ctrl

\* the view evaluates ctrl.overdue(item) when the clock reads now
overdueCall(now, todoItem) ==
    /\ probe' = Probe("overdue", [NoInput EXCEPT !.now = now, !.DueDate = todoItem.DueDate],
                      <<Str(overdue(now, todoItem))>>)
    /\ UNCHANGED ctrl

QueryNext ==
    \/ noCompletedCall
    \/ \E now \in Nows, d \in DueDates :
          overdueCall(now, [Id |-> 1, IsDone |-> FALSE, DueDate |-> d])
    \/ \E scope \in Scopes : toggleCall(scope)
    \/ \E scope \in Scopes : templateCall(scope)
    \/ \E kind \in {"get", "update", "delete"}, http \in Https : settleCall(kind, http)

\* an idle controller showing any list, with one user operation to come
QueryInit ==
    /\ filter = [filterText |-> "", columnName |-> "DueDate", sortAscending |-> FALSE]
    /\ items \in Lists
    /\ loading = FALSE
    /\ pending = {}
    /\ nextId = 2
    /\ batches = <<>>
    /\ lastGet = [id |-> 1, filter |-> filter, list |-> items, prev |-> 0]
    /\ nops = MaxOps - 1
    /\ ev = Event("getItems", "resolved", 0)
    /\ probe = NoProbe

QuerySpec == QueryInit /\ [][Next \/ QueryNext]_vars

\* ---- shapes of the state --------------------------------------------------
TypeOK ==
    /\ filter \in ITodoFilter
    /\ items \in Lists
    /\ loading \in BOOLEAN
    /\ nops \in 0..MaxOps
    /\ \A c \in pending : c.id \in 1..(nextId - 1) /\ c.kind \in {"get", "update", "delete"}
    /\ \A c, d \in pending : c.id = d.id => c = d
    /\ ColumnNames \subseteq Columns

\* ---- what a step issued and settled ---------------------------------------
DeletesOf(p, b) == {c \in p : c.kind = "delete" /\ c.batch = b}
RefreshesOf(p, b) == {c \in p : c.kind = "get" /\ c.batch = b}
OfKind(p, kind) == {c \in p : c.kind = kind}

\* C1: the refresh that follows a confirmed removeCompleted() is issued by the
\* step that settles the last outstanding deleteItem of that batch, once, and
\* by no other step: not while a delete of the batch is outstanding, whatever
\* the order and the outcomes of the settlements.
C1_RefreshOnceOnDrain ==
    [][\A b \in DOMAIN batches' :
          Cardinality(RefreshesOf(pending' \ pending, b)) =
              IF DeletesOf(pending, b) # {} /\ DeletesOf(pending', b) = {}
              THEN 1 ELSE 0]_vars

\* a batch of two deletes has drained, the second by a rejection (the first
\* settlement issued nothing), and its refresh is outstanding
C1_Witness ==
    /\ nops = 1 /\ nextId = 5
    /\ ev = Event("deleteItem", "rejected", 0)
    /\ \E c \in pending : c.kind = "get" /\ c.batch = 1 /\ c.id = 4
    /\ DeletesOf(pending, 1) = {}

\* C2: a confirmed removeCompleted() issues one deleteItem per item of
\* this.items that is done, carrying its Id, none for an item that is not done,
\* and nothing else.
C2_OneDeletePerDoneItem ==
    [][ev'.op = "removeCompleted" /\ ev'.arg = "confirmed" =>
          LET issued == pending' \ pending
          IN  /\ \A c \in issued :
                    c.kind = "delete" /\ \E i \in 1..Len(items) : c.item.Id = items[i].Id
              /\ \A i \in 1..Len(items) :
                    Cardinality({c \in issued : c.item.Id = items[i].Id}) =
                        IF items[i].IsDone THEN 1 ELSE 0]_vars

\* removeCompleted() was confirmed over a list with one done and one open item
C2_Witness ==
    /\ ev = Event("removeCompleted", "confirmed", 0)
    /\ Len(items) = 2 /\ Cardinality(DoneIndexes(items)) = 1
    /\ Cardinality(OfKind(pending, "delete")) = 1

\* C3: a declined removeCompleted() issues no call and leaves filter, items and
\* loading as they were.
C3_DeclinedNoEffect ==
    [][ev'.op = "removeCompleted" /\ ev'.arg = "declined" =>
          UNCHANGED <<filter, items, loading, pending, nextId>>]_vars

\* removeCompleted() was declined while idle over a list with a done item
C3_Witness ==
    /\ ev = Event("removeCompleted", "declined", 0)
    /\ DoneIndexes(items) # {} /\ ~loading /\ pending = {}

\* C4: changeColumn(c) negates sortAscending and keeps columnName when c is the
\* current column, otherwise sets columnName to c and keeps sortAscending; it
\* keeps filterText and issues exactly one getItems call.
C4_ChangeColumn ==
    [][ev'.op = "changeColumn" =>
          LET c == ev'.arg
          IN  /\ c = filter.columnName =>
                    /\ filter'.sortAscending = ~filter.sortAscending
                    /\ filter'.columnName = filter.columnName
              /\ c # filter.columnName =>
                    /\ filter'.columnName = c
                    /\ filter'.sortAscending = filter.sortAscending
              /\ filter'.filterText = filter.filterText
              /\ Cardinality(OfKind(pending' \ pending, "get")) = 1
              /\ Cardinality(pending' \ pending) = 1]_vars

\* both branches were taken: the column was changed and the direction toggled
C4_Witness ==
    /\ ev.op = "changeColumn"
    /\ filter.columnName = "Description" /\ filter.sortAscending
\* C5: every step issues at most one getItems call and it carries the filter
\* the controller holds after the step; when a getItems call resolves, items
\* becomes the delivered list as it is and loading becomes false.
C5_RefreshSendsFilterTakesList ==
    [][/\ \A c \in OfKind(pending' \ pending, "get") : c.filter = filter'
       /\ Cardinality(OfKind(pending' \ pending, "get")) <= 1
       /\ ev'.op \in {"setFilterText", "changeColumn"} =>
             Cardinality(OfKind(pending' \ pending, "get")) = 1
       /\ ev'.op = "getItems" /\ ev'.arg = "resolved" =>
             items' = lastGet'.list /\ ~loading']_vars

\* a two-item list replaced a different two-item list on display, after the
\* filter had been changed
C5_Witness ==
    /\ ev = Event("getItems", "resolved", 0)
    /\ lastGet.prev > 0 /\ Len(items) = 2 /\ items[1].Id = 2
    /\ lastGet.filter.filterText = "a" /\ lastGet.filter = filter
    /\ ~loading /\ pending = {}

\* C6: items is the list delivered by the getItems call that resolved last
\* (the empty initial collection before any has), in every reachable state.
C6_ItemsAreLastResponse == items = lastGet.list

\* a list is on display, and since it arrived a bulk delete was issued and an
\* update has settled
C6_Witness ==
    /\ ev.op = "updateItem"
    /\ Len(items) = 2 /\ lastGet.id = 1 /\ batches # <<>>

\* C7: refreshes are neither cancelled nor sequenced: a getItems call leaves
\* the outstanding calls only by settling, alone; when it resolves its list
\* goes on display even if a call issued after it has resolved before it.
C7_NotCancelledNotSequenced ==
    [][/\ \A c \in OfKind(pending \ pending', "get") :
             ev'.op = "getItems" /\ pending' = pending \ {c}
       /\ ev'.op = "getItems" /\ ev'.arg = "resolved" =>
             \A c \in pending \ pending' :
                 /\ lastGet'.id = c.id /\ lastGet'.filter = c.filter
                 /\ items' = lastGet'.list]_vars

\* the stale state: the earlier request resolved after the later one; its list,
\* asked for with an older filter, is on display, idle, nothing outstanding
C7_Witness ==
    /\ lastGet.prev > lastGet.id /\ lastGet.id > 0
    /\ lastGet.filter # filter
    /\ items = lastGet.list /\ items # <<>>
    /\ ~loading /\ pending = {}

\* C8: every rejected service call raises exactly one alert.
C8_EveryRejectionAlerts == ev.arg = "rejected" => ev.alerts = 1

\* C9: whenever no service call is outstanding, loading is false.
C9_IdleWhenNothingOutstanding == pending = {} => ~loading

\* C10: update(item) sets loading, issues one updateItem call and nothing else;
\* the settlement of an updateItem call clears loading and issues nothing;
\* neither changes items or filter.
C10_Update ==
    [][/\ ev'.op = "update" =>
             /\ loading'
             /\ pending \subseteq pending'
             /\ Cardinality(pending' \ pending) = 1
             /\ OfKind(pending' \ pending, "update") = pending' \ pending
             /\ items' = items /\ filter' = filter
       /\ ev'.op = "updateItem" =>
             /\ ~loading'
             /\ pending' \subseteq pending
             /\ Cardinality(pending \ pending') = 1
             /\ OfKind(pending \ pending', "update") = pending \ pending'
             /\ items' = items /\ filter' = filter]_vars

\* an update was rejected while a list was on display, and the controller is idle
C10_Witness ==
    /\ ev = Event("updateItem", "rejected", 1)
    /\ items # <<>> /\ ~loading /\ pending = {}
\* C11: a rejected getItems call leaves items and filter as they were, raises
\* one alert, clears loading and issues no request.
C11_RejectedRefresh ==
    [][ev'.op = "getItems" /\ ev'.arg = "rejected" =>
          /\ items' = items /\ filter' = filter
          /\ ev'.alerts = 1
          /\ ~loading'
          /\ pending' \subseteq pending /\ nextId' = nextId
          /\ Cardinality(pending \ pending') = 1
          /\ OfKind(pending \ pending', "get") = pending \ pending']_vars

\* a refresh was rejected under a changed filter while a list was on display
C11_Witness ==
    /\ ev = Event("getItems", "rejected", 1)
    /\ items # <<>> /\ filter.filterText = "a" /\ lastGet.filter # filter
    /\ ~loading /\ pending = {}

\* C12: the constructor leaves the filter {"", "DueDate", false} and one
\* getItems call outstanding; an assignment to filterText stores the value,
\* keeps columnName and sortAscending and issues exactly one getItems call; a
\* getItems call is issued only by a filterText assignment, by changeColumn or
\* by the settlement that drains a removeCompleted batch.
C12_WhoRefreshes ==
    /\ filter = [filterText |-> "", columnName |-> "DueDate", sortAscending |-> FALSE]
    /\ \E c \in pending : pending = {c} /\ c.kind = "get" /\ c.filter = filter
    /\ [][/\ ev'.op = "setFilterText" =>
                /\ filter' = [filter EXCEPT !.filterText = ev'.arg]
                /\ pending \subseteq pending'
                /\ Cardinality(pending' \ pending) = 1
                /\ OfKind(pending' \ pending, "get") = pending' \ pending
          /\ OfKind(pending' \ pending, "get") # {} =>
                \/ ev'.op \in {"setFilterText", "changeColumn"}
                \/ /\ ev'.op = "deleteItem"
                   /\ \E b \in DOMAIN batches :
                         DeletesOf(pending, b) # {} /\ DeletesOf(pending', b) = {}]_vars

\* filterText was assigned after the column had been changed
C12_Witness ==
    /\ ev = Event("setFilterText", "a", 0)
    /\ filter = [filterText |-> "a", columnName |-> "Description", sortAscending |-> FALSE]
    /\ \E c \in pending : c.kind = "get" /\ c.filter = filter

\* C17: while any service call is outstanding, loading is true.
C17_LoadingWhileOutstanding == pending # {} => loading

\* C18: the settlement of a deleteItem call changes neither items nor filter
\* and never clears loading.
C18_DeleteSettlementFrame ==
    [][ev'.op = "deleteItem" =>
          /\ items' = items /\ filter' = filter
          /\ loading => loading']_vars

\* the first delete of a batch of two has settled, the other is outstanding,
\* and loading is still set
C18_Witness ==
    /\ ev.op = "deleteItem"
    /\ batches = <<1>> /\ Cardinality(DeletesOf(pending, 1)) = 1
    /\ nextId = 4 /\ loading /\ Len(items) = 2

\* C19: the count of each removeCompleted invocation is the number of its own
\* deletes still outstanding, never negative; the step that settles the last
\* delete of a batch issues one refresh for that batch, and no refresh for a
\* batch is issued by any other step, whatever the other batches do.
C19_OwnCountdown ==
    /\ [](\A b \in DOMAIN batches :
             /\ batches[b] = Cardinality(DeletesOf(pending, b))
             /\ batches[b] >= 0
             /\ RefreshesOf(pending, b) # {} => batches[b] = 0)
    /\ [][\A b \in DOMAIN batches :
             /\ batches[b] > 0 /\ batches'[b] = 0 =>
                   Cardinality(RefreshesOf(pending' \ pending, b)) = 1
             /\ ~(batches[b] > 0 /\ batches'[b] = 0) =>
                   RefreshesOf(pending' \ pending, b) = {}]_vars

\* two overlapping batches have both drained, and the refresh of each is
\* outstanding
C19_Witness ==
    /\ batches = <<0, 0>>
    /\ Cardinality(RefreshesOf(pending, 1)) = 1
    /\ Cardinality(RefreshesOf(pending, 2)) = 1
    /\ OfKind(pending, "delete") = {}
\* C13: the promise of a service call settles on the outcome of its one HTTP
\* request: resolved iff the request succeeded, rejected with the error as
\* received iff it failed; getItems resolves with the list the server sent,
\* updateItem with the item the server sent back, deleteItem with no value.
C13_ServicePromises ==
    probe.op = "settle" =>
        /\ probe.out[1] = IF probe.in.ok THEN "resolved" ELSE "rejected"
        /\ ~probe.in.ok => probe.out[2] = "response" /\ probe.out[3] = probe.in.data
        /\ probe.in.ok /\ probe.in.kind \in {"get", "update"} =>
              probe.out[2] = "data" /\ probe.out[3] = probe.in.data
        /\ probe.in.ok /\ probe.in.kind = "delete" => probe.out[2] = "undefined"

\* C14: noCompleted() returns true iff no item of this.items has IsDone true
\* (true for the empty collection), and changes no state.
C14_NoCompleted ==
    /\ [](probe.op = "noCompleted" =>
             probe.out = <<Str(\A i \in 1..Len(items) : ~items[i].IsDone)>>)
    /\ [][probe'.op = "noCompleted" => UNCHANGED ctrl]_vars

\* noCompleted() returned false over a list whose first item is done and
\* whose last is not
C14_Witness ==
    /\ probe.op = "noCompleted" /\ probe.out = <<"false">>
    /\ Len(items) = 2 /\ items[1].IsDone /\ ~items[2].IsDone

\* C15: overdue(item) returns true iff the clock is strictly later than the
\* item's due date, false when it equals or precedes it, and changes no state.
C15_Overdue ==
    /\ [](probe.op = "overdue" /\ DateParse(probe.in.DueDate).valid =>
             probe.out = <<Str(probe.in.now > DateParse(probe.in.DueDate).t)>>)
    /\ [][probe'.op = "overdue" => UNCHANGED ctrl]_vars

\* overdue() returned false at the very instant of the due date
C15_Witness ==
    /\ probe.op = "overdue" /\ probe.out = <<"false">>
    /\ probe.in.DueDate = "2020-01-01" /\ probe.in.now = 0
\* C16: activating a column toggle calls the change-column callback once, with
\* the widget's own column name; the widget shows its label when it has one,
\* else its column name, followed by an indicator iff its column is the current
\* one: the ascending one when sortAscending, else the descending one.
C16_ColumnToggle ==
    /\ probe.op = "toggle" =>
          Len(probe.out) = 1 /\ probe.out[1] = probe.in.columnName
    /\ probe.op = "template" =>
          /\ probe.out[1] = IF probe.in.columnDescription = ""
                            THEN probe.in.columnName ELSE probe.in.columnDescription
          /\ Len(probe.out) = IF probe.in.currentColumn = probe.in.columnName THEN 2 ELSE 1
          /\ Len(probe.out) = 2 /\ probe.in.sortAscending => probe.out[2] = " ^"
          /\ Len(probe.out) = 2 /\ ~probe.in.sortAscending => probe.out[2] = " v"

\* a toggle without a label, on the current column, sorted ascending, was rendered
C16_Witness ==
    /\ probe.op = "template" /\ probe.out = <<"Description", " ^">>
    /\ probe.in.columnDescription = "" /\ probe.in.sortAscending
\* C20: the filter changes only in a filterText assignment or a changeColumn
\* call: no settlement of a service call and no call of update,
\* removeCompleted, overdue or noCompleted changes it.
C20_FilterFrame ==
    [][/\ filter' # filter =>
             probe' = NoProbe /\ nops' = nops + 1
             /\ ev'.op \in {"setFilterText", "changeColumn"}
       /\ \/ ev'.op \in {"getItems", "updateItem", "deleteItem", "update", "removeCompleted"}
          \/ probe'.op \in {"overdue", "noCompleted"}
          => filter' = filter]_vars

\* the filter text was changed, the refresh was rejected and overdue() was then
\* evaluated: the filter is still the changed one
C20_Witness ==
    /\ filter.filterText = "a"
    /\ ev = Event("getItems", "rejected", 1)
    /\ probe.op = "overdue"
====
